---- MODULE Spec2Model ----
(***************************************************************************)
(* ConstantEvaluator (libsolidity/analysis/ConstantEvaluator.cpp): the     *)
(* memoizing visitor that folds constant expressions.  The visitor's       *)
(* recursion is modelled with an explicit call stack, one step per         *)
(* handler (endVisit) or call/return of evaluate().                        *)
(***************************************************************************)
EXTENDS Integers, Sequences, FiniteSets, TLC

\* ------------------------------------------------------------------ bounds

\* Largest absolute value of the integer constants of the folded programs.
MaxInt == 3
\* Number of top-level evaluate() requests made on one evaluator.
MaxRequests == 2
\* Number of constants of the acyclic chain c1 = c2, c2 = c3, ..., cN = 7.
ChainLen == 35

\* The recursion limit of endVisit(Identifier): "if (m_depth > 32)".
MaxDepth == 32

\* ------------------------------------------------------------------- types

\* A TypePointer: nullptr, or a type of the type system with its category.
NULL == [cat |-> "nullptr", num |-> 0, den |-> 1, name |-> ""]

\* TypeProvider::rationalNumber(value): the literal-carrying type of num/den.
RationalNumber(n, d) == [cat |-> "RationalNumber", num |-> n, den |-> d, name |-> ""]

\* An integer type (uint256, int256, ...).
IntegerType(nm) == [cat |-> "Integer", num |-> 0, den |-> 1, name |-> nm]

\* TypeProvider::boolean().
BoolType == [cat |-> "Bool", num |-> 0, den |-> 1, name |-> "bool"]

\* The type of a string literal.
StringLiteralType == [cat |-> "StringLiteral", num |-> 0, den |-> 1, name |-> "literal_string"]

\* RationalNumberType::isFractional().
isFractional(t) == t.den # 1

\* optional<TypedValue>: nullopt, or a TypedValue{sourceType, evaluatedValue}.
nullopt == [has |-> FALSE, sourceType |-> NULL, evaluatedValue |-> NULL]

TypedValue(s, v) == [has |-> TRUE, sourceType |-> s, evaluatedValue |-> v]

\* -------------------------------------------------- exact rational values

Abs(x) == IF x < 0 THEN -x ELSE x

Sign(x) == IF x < 0 THEN -1 ELSE IF x > 0 THEN 1 ELSE 0

RECURSIVE GCD(_, _)
GCD(a, b) == IF b = 0 THEN a ELSE GCD(b, a % b)

\* A rational in lowest terms with a positive denominator (d # 0).
Rat(n, d) ==
    LET g == GCD(Abs(n), Abs(d))
    IN  [num |-> Sign(d) * (n \div g), den |-> Abs(d) \div g]

RatAdd(l, r) == Rat(l.num * r.den + r.num * l.den, l.den * r.den)

RatSub(l, r) == Rat(l.num * r.den - r.num * l.den, l.den * r.den)

RatMul(l, r) == Rat(l.num * r.num, l.den * r.den)

\* _left / _right of two rationals, for _right # 0.
RatDiv(l, r) == Rat(l.num * r.den, l.den * r.num)

\* bigint / bigint: the quotient truncated toward zero.
TruncDiv(n, d) == Sign(n) * Sign(d) * (Abs(n) \div Abs(d))

\* bigint % bigint: the remainder, with the sign of the dividend.
TruncMod(n, d) == n - d * TruncDiv(n, d)

\* bigint | & ^ on arbitrary-precision integers (two's complement semantics).
RECURSIVE BitAnd(_, _)
BitAnd(a, b) ==
    IF a = 0 \/ b = 0 THEN 0
    ELSE IF a = -1 THEN b
    ELSE IF b = -1 THEN a
    ELSE (IF a % 2 = 1 /\ b % 2 = 1 THEN 1 ELSE 0) + 2 * BitAnd(a \div 2, b \div 2)

RECURSIVE BitOr(_, _)
BitOr(a, b) ==
    IF a = 0 THEN b
    ELSE IF b = 0 THEN a
    ELSE IF a = -1 \/ b = -1 THEN -1
    ELSE (IF a % 2 = 1 \/ b % 2 = 1 THEN 1 ELSE 0) + 2 * BitOr(a \div 2, b \div 2)

RECURSIVE BitXor(_, _)
BitXor(a, b) ==
    IF a = 0 THEN b
    ELSE IF b = 0 THEN a
    ELSE IF a = -1 /\ b = -1 THEN 0
    ELSE (IF a % 2 # b % 2 THEN 1 ELSE 0) + 2 * BitXor(a \div 2, b \div 2)

\* --------------------------------------------------------------- operators

\* The operators evaluateBinary's switch handles.
FoldOps == {"BitOr", "BitAnd", "BitXor", "Add", "Sub", "Mul", "Div", "Mod"}

\* TokenTraits::isCompareOp.
isCompareOp(op) == op \in {"LessThan", "Equal"}

\* Binary operators of the expressions folded here.
BinaryOps == FoldOps \cup {"LessThan", "And"}

\* ConstantEvaluator::evaluateBinary(_left, _right, _operator, _location):
\* the value, or nullopt with the diagnostic it reports, or the exception
\* that leaves it (boost::bad_rational on a zero divisor, the failed
\* solAssert of the default branch).
FoldValue(q) == [tag |-> "value", val |-> q]

\* case Token::Div with the quotient rounded toward minus infinity.
foldDivFloor(l, r) ==
    IF r.num = 0
    THEN [tag |-> "bad_rational", val |-> Rat(0, 1)]
    ELSE LET fractionalResult == RatDiv(l, r)
         IN  FoldValue(Rat(fractionalResult.num \div fractionalResult.den, 1))

\* case Token::Div: the rational quotient (boost::bad_rational for a zero
\* divisor), truncated to an integer.
foldDiv(l, r) ==
    IF r.num = 0
    THEN [tag |-> "bad_rational", val |-> Rat(0, 1)]
    ELSE LET fractionalResult == RatDiv(l, r)
         IN  FoldValue(Rat(TruncDiv(fractionalResult.num, fractionalResult.den), 1))

\* case Token::Mod without the test of the right operand.
foldModUnchecked(l, r) ==
    IF r.num = 0
    THEN [tag |-> "bad_rational", val |-> Rat(0, 1)]
    ELSE IF l.den = 1 /\ r.den = 1
    THEN FoldValue(Rat(TruncMod(l.num, r.num), 1))
    ELSE LET tempValue == RatDiv(l, r)
         IN  FoldValue(RatSub(l, RatMul(Rat(TruncDiv(tempValue.num, tempValue.den), 1), r)))

\* case Token::Mod: nullopt, with the diagnostic 1211, for a zero right
\* operand.
foldMod(l, r) ==
    IF r.num = 0
    THEN [tag |-> "nullopt", val |-> Rat(0, 1)]
    ELSE IF l.den = 1 /\ r.den = 1
    THEN FoldValue(Rat(TruncMod(l.num, r.num), 1))
    ELSE LET tempValue == RatDiv(l, r)
         IN  FoldValue(RatSub(l, RatMul(Rat(TruncDiv(tempValue.num, tempValue.den), 1), r)))

evaluateBinary(l, r, op) ==
    CASE op = "BitOr"  -> FoldValue(Rat(BitOr(l.num, r.num), 1))
      [] op = "BitAnd" -> FoldValue(Rat(BitAnd(l.num, r.num), 1))
      [] op = "BitXor" -> FoldValue(Rat(BitXor(l.num, r.num), 1))
      [] op = "Add"    -> FoldValue(RatAdd(l, r))
      [] op = "Sub"    -> FoldValue(RatSub(l, r))
      [] op = "Mul"    -> FoldValue(RatMul(l, r))
      [] op = "Div"    -> foldDiv(l, r)
      [] op = "Mod"    -> foldMod(l, r)
      [] OTHER         -> [tag |-> "InternalCompilerError", val |-> Rat(0, 1)]

\* --------------------------------------------- the type system's operators

\* RationalNumberType::value().
value(t) == [num |-> t.num, den |-> t.den]

\* RationalNumberType::unaryOperatorResult(_operator).
unaryOperatorResult(t, op) ==
    CASE op = "Sub"    -> RationalNumber(-t.num, t.den)
      [] op = "BitNot" -> IF isFractional(t) THEN NULL ELSE RationalNumber(-t.num - 1, 1)
      [] OTHER         -> NULL

\* RationalNumberType::binaryOperatorResult(_operator, _other) for another
\* rational number type: the type of the exact result, the common runtime
\* type for a comparison, nullptr where the operator is not defined.
binaryOperatorResult(l, op, r) ==
    LET wrap(q) == RationalNumber(q.num, q.den)
    IN  CASE isCompareOp(op) ->
                IF isFractional(l) \/ isFractional(r) THEN NULL ELSE IntegerType("int256")
          [] op \in {"BitOr", "BitAnd", "BitXor"} ->
                IF isFractional(l) \/ isFractional(r)
                THEN NULL
                ELSE wrap(evaluateBinary(value(l), value(r), op).val)
          [] op = "Add" -> wrap(RatAdd(value(l), value(r)))
          [] op = "Sub" -> wrap(RatSub(value(l), value(r)))
          [] op = "Mul" -> wrap(RatMul(value(l), value(r)))
          [] op = "Div" -> IF r.num = 0 THEN NULL ELSE wrap(RatDiv(value(l), value(r)))
          [] op = "Mod" ->
                IF r.num = 0 THEN NULL ELSE wrap(evaluateBinary(value(l), value(r), op).val)
          [] OTHER -> NULL

\* ----------------------------------------------------- the expression tree

\* Expression nodes.  A node's identity is its index in the program's node
\* table; kids are the children accept() visits, in order; ref is the
\* declaration an identifier is resolved to; type is a literal's type.
Literal(t) ==
    [kind |-> "Literal", op |-> "", kids |-> <<>>, ref |-> 0, type |-> t, arr |-> FALSE]

UnaryOperation(o, sub) ==
    [kind |-> "UnaryOperation", op |-> o, kids |-> <<sub>>, ref |-> 0, type |-> NULL, arr |-> FALSE]

BinaryOperation(o, l, r) ==
    [kind |-> "BinaryOperation", op |-> o, kids |-> <<l, r>>, ref |-> 0, type |-> NULL, arr |-> FALSE]

Identifier(d) ==
    [kind |-> "Identifier", op |-> "", kids |-> <<>>, ref |-> d, type |-> NULL, arr |-> FALSE]

TupleExpression(components, inlineArray) ==
    [kind |-> "TupleExpression", op |-> "", kids |-> components, ref |-> 0, type |-> NULL,
     arr |-> inlineArray]

\* Declarations: a constant variable with its initializer (0: none) and its
\* annotated type, a non-constant variable, a declaration that is no variable.
ConstantDeclaration(init, t) == [isVar |-> TRUE, isConstant |-> TRUE, value |-> init, type |-> t]

VariableDeclaration(init, t) == [isVar |-> TRUE, isConstant |-> FALSE, value |-> init, type |-> t]

FunctionDefinition == [isVar |-> FALSE, isConstant |-> FALSE, value |-> 0, type |-> NULL]

\* TypeProvider::forLiteral(_literal).
forLiteral(node) == node.type

\* A numeric literal of a non-negative integer.
Number(n) == Literal(RationalNumber(n, 1))

\* ------------------------------------------------------------ the programs

\* const a = b; const b = a;   requested: a, b.
CycleProgram ==
    [name  |-> "cycle",
     nodes |-> <<Identifier(2), Identifier(1), Identifier(1), Identifier(2)>>,
     decls |-> <<ConstantDeclaration(1, IntegerType("uint256")),
                 ConstantDeclaration(2, IntegerType("uint256"))>>,
     roots |-> {3, 4}]

\* The constants of the chain a request starts at: chains of 35, 33, 32, 18
\* and 1 constants for ChainLen = 35.
ChainRoots == {1, ChainLen - MaxDepth, ChainLen - MaxDepth + 1, ChainLen \div 2 + 1, ChainLen}

\* const c1 = c2; ...; const c(N-1) = cN; const cN = 7;   node i is ci's
\* initializer, node N + i a reference to ci.
ChainProgram ==
    [name  |-> "chain",
     nodes |-> [i \in 1..(2 * ChainLen) |->
                   IF i < ChainLen THEN Identifier(i + 1)
                   ELSE IF i = ChainLen THEN Number(7)
                   ELSE Identifier(i - ChainLen)],
     decls |-> [i \in 1..ChainLen |-> ConstantDeclaration(i, IntegerType("uint256"))],
     roots |-> {ChainLen + i : i \in ChainRoots}]

\* int constant A = a; int constant B = b;   requested: A op B, and
\* (A op B) + (A + B).  A negative value is written -|a|.
FoldProgram(a, b, o) ==
    [name  |-> "fold",
     nodes |-> <<Number(Abs(a)), UnaryOperation("Sub", 1),
                 Number(Abs(b)), UnaryOperation("Sub", 3),
                 Identifier(1), Identifier(2), BinaryOperation(o, 5, 6),
                 Identifier(1), Identifier(2), BinaryOperation("Add", 8, 9),
                 BinaryOperation("Add", 7, 10)>>,
     decls |-> <<ConstantDeclaration(IF a < 0 THEN 2 ELSE 1, IntegerType("int256")),
                 ConstantDeclaration(IF b < 0 THEN 4 ELSE 3, IntegerType("int256"))>>,
     roots |-> {7, 11}]

\* uint constant C = -1 + (a op b);   requested: a op b, -1 + (a op b), C + C.
GeneralProgram(a, b, o) ==
    [name  |-> "general",
     nodes |-> <<Number(a), Number(b), BinaryOperation(o, 1, 2),
                 Number(1), UnaryOperation("Sub", 4), BinaryOperation("Add", 5, 3),
                 Identifier(1), Identifier(1), BinaryOperation("Add", 7, 8)>>,
     decls |-> <<ConstantDeclaration(6, IntegerType("uint256"))>>,
     roots |-> {3, 6, 9}]

\* uint constant A = a; uint constant B = b;   requested: (A) op B, A op B,
\* (A, B) + [A], (a).
TupleProgram(a, b, o) ==
    [name  |-> "tuple",
     nodes |-> <<Number(a), Number(b),
                 Identifier(1), TupleExpression(<<3>>, FALSE), Identifier(2),
                 BinaryOperation(o, 4, 5),
                 Identifier(1), Identifier(2), BinaryOperation(o, 7, 8),
                 Identifier(1), Identifier(2), TupleExpression(<<10, 11>>, FALSE),
                 Identifier(1), TupleExpression(<<13>>, TRUE),
                 BinaryOperation("Add", 12, 14),
                 Number(a), TupleExpression(<<16>>, FALSE)>>,
     decls |-> <<ConstantDeclaration(1, IntegerType("uint256")),
                 ConstantDeclaration(2, IntegerType("uint256"))>>,
     roots |-> {6, 9, 15, 17}]

\* uint8 constant A = a; int256 constant B = b;   requested: A op B, B op A.
MixedProgram(a, b, o) ==
    [name  |-> "mixed",
     nodes |-> <<Number(a), Number(b),
                 Identifier(1), Identifier(2), BinaryOperation(o, 3, 4),
                 Identifier(2), Identifier(1), BinaryOperation(o, 6, 7)>>,
     decls |-> <<ConstantDeclaration(1, IntegerType("uint8")),
                 ConstantDeclaration(2, IntegerType("int256"))>>,
     roots |-> {5, 8}]

\* A literal on its own.
LiteralProgram(t) ==
    [name  |-> "literal",
     nodes |-> <<Literal(t)>>,
     decls |-> <<>>,
     roots |-> {1}]

\* The initializers of the constant C of ConstProgram: a number, a boolean,
\* a string, a non-constant variable, A % Z with Z = 0.
InitKinds == {"number", "bool", "string", "nonconstant", "modzero"}

\* uint constant C = <init>; uint V = 5; function F; uint constant N;
\* uint constant A = 1; uint constant Z = 0;   requested: C, C + C, F + N.
ConstProgram(k) ==
    [name  |-> "const",
     nodes |-> <<Number(5), Literal(BoolType), Literal(StringLiteralType), Identifier(2),
                 Identifier(5), Identifier(6), BinaryOperation("Mod", 5, 6),
                 Number(1), Number(0),
                 Identifier(1), Identifier(1), BinaryOperation("Add", 10, 11),
                 Identifier(3), Identifier(4), BinaryOperation("Add", 13, 14),
                 Number(5), Identifier(1)>>,
     decls |-> <<ConstantDeclaration(
                     CASE k = "number" -> 1 [] k = "bool" -> 2 [] k = "string" -> 3
                       [] k = "nonconstant" -> 4 [] OTHER -> 7,
                     IntegerType("uint256")),
                 VariableDeclaration(16, IntegerType("uint256")),
                 FunctionDefinition,
                 ConstantDeclaration(0, IntegerType("uint256")),
                 ConstantDeclaration(8, IntegerType("uint256")),
                 ConstantDeclaration(9, IntegerType("uint256"))>>,
     roots |-> {17, 12, 15}]

\* The literals of LiteralProgram: integers, a fraction, true, a string.
LiteralTypes ==
    {RationalNumber(n, 1) : n \in 0..MaxInt} \cup {RationalNumber(1, 2), BoolType, StringLiteralType}

\* The programs the evaluator is run on.
Programs ==
    {CycleProgram, ChainProgram}
    \cup {FoldProgram(a, b, o) : a \in (-MaxInt)..MaxInt, b \in (-MaxInt)..MaxInt, o \in BinaryOps}
    \cup {GeneralProgram(a, b, o) : a \in 0..MaxInt, b \in 0..MaxInt, o \in BinaryOps}
    \cup {TupleProgram(a, b, o) : a \in 0..MaxInt, b \in 0..MaxInt, o \in FoldOps}
    \cup {MixedProgram(a, b, o) : a \in 0..MaxInt, b \in 0..MaxInt, o \in FoldOps}
    \cup {LiteralProgram(t) : t \in LiteralTypes}
    \cup {ConstProgram(k) : k \in InitKinds}


\* ------------------------------------------------------------------- state

VARIABLES
    program,        \* the expression tree and declarations under analysis
    m_evaluations,  \* the memo table: node -> TypedValue
    m_depth,        \* the recursion-depth counter
    errors,         \* the diagnostics reported to m_errorReporter, in order
    stack,          \* the call stack of evaluate / accept / endVisit
    exc,            \* the exception being unwound, or that ended the request
    ret,            \* the last top-level request: its expression, whether it
                    \* has returned, and the value it returned
    requests,       \* the number of top-level requests made so far
    typeCalls,      \* per node, the calls of unary/binaryOperatorResult
    initEvals,      \* per declaration, the evaluate(*value) calls of identifiers
    steps           \* the steps the current request has taken

vars == <<program, m_evaluations, m_depth, errors, stack, exc, ret, requests,
          typeCalls, initEvals, steps>>

Nodes == DOMAIN program.nodes

Node(n) == program.nodes[n]

Declaration(d) == program.decls[d]

\* ---------------------------------------------------------- the memo table

\* ConstantEvaluator::evaluated(_node).
evaluated(memo, n) == n \in DOMAIN memo

\* ConstantEvaluator::result(_node).
result(memo, n) == IF n \in DOMAIN memo THEN memo[n] ELSE nullopt

\* ConstantEvaluator::sourceType(_node).
sourceType(memo, n) == IF n \in DOMAIN memo THEN memo[n].sourceType ELSE NULL

\* ConstantEvaluator::evaluatedValue(_node).
evaluatedValue(memo, n) == IF n \in DOMAIN memo THEN memo[n].evaluatedValue ELSE NULL

\* setResult without the test of the value's category.
setResultAnyCategory(memo, n, res) ==
    IF res.has /\ res.evaluatedValue # NULL
    THEN (n :> TypedValue(res.sourceType, res.evaluatedValue)) @@ memo
    ELSE memo

\* ConstantEvaluator::setResult(_node, _result).
setResult(memo, n, res) ==
    IF res.has /\ res.evaluatedValue # NULL /\ res.evaluatedValue.cat = "RationalNumber"
    THEN (n :> TypedValue(res.sourceType, res.evaluatedValue)) @@ memo
    ELSE memo

\* ConstantEvaluator::setValue(_node, _value).
setValue(memo, n, t) == setResult(memo, n, TypedValue(t, t))

\* ------------------------------------------------------------ diagnostics

\* ErrorReporter::typeError: a recoverable diagnostic.
typeError(code, loc) == [code |-> code, loc |-> loc, fatal |-> FALSE]

\* ErrorReporter::fatalTypeError: a diagnostic, then FatalError is thrown.
fatalTypeError(code, loc) == [code |-> code, loc |-> loc, fatal |-> TRUE]

\* ------------------------------------------------------------ the handlers

\* What a handler does: the memo table it leaves, the diagnostics it
\* reports, the exception that leaves it ("none": it returns), and the
\* number of calls it makes into the type system's operator resolution.
Outcome(memo, errs, e, calls) == [memo |-> memo, errs |-> errs, exc |-> e, calls |-> calls]

\* ConstantEvaluator::endVisit(Literal const&).
endVisitLiteral(memo, n) ==
    Outcome(setValue(memo, n, forLiteral(Node(n))), <<>>, "none", 0)

\* ConstantEvaluator::endVisit(UnaryOperation const&).
endVisitUnaryOperation(memo, n) ==
    LET sub == evaluatedValue(memo, Node(n).kids[1])
    IN  IF sub # NULL
        THEN Outcome(setValue(memo, n, unaryOperatorResult(sub, Node(n).op)), <<>>, "none", 1)
        ELSE Outcome(memo, <<>>, "none", 0)

\* The fast path's test: both values numeric literals, both source types
\* integers.
fastPath(left, right, leftType, rightType) ==
    /\ left.cat = "RationalNumber"
    /\ right.cat = "RationalNumber"
    /\ leftType.cat = "Integer"
    /\ rightType.cat = "Integer"

\* fastPathFold recording the result under the right operand's source type.
fastPathFoldRightType(memo, n, left, right, leftType) ==
    IF isFractional(left) \/ isFractional(right)
    THEN Outcome(memo, <<>>, "InternalCompilerError", 0)
    ELSE LET res == evaluateBinary(value(left), value(right), Node(n).op)
         IN  CASE res.tag = "value" ->
                    Outcome(setResult(memo, n,
                                TypedValue(result(memo, Node(n).kids[2]).sourceType,
                                           RationalNumber(res.val.num, res.val.den))),
                            <<>>, "none", 0)
               [] res.tag = "nullopt" ->
                    Outcome(memo, <<typeError(1211, n)>>, "none", 0)
               [] OTHER -> Outcome(memo, <<>>, res.tag, 0)

\* The fast path: the operands are folded directly; the result carries the
\* left operand's source type.
fastPathFold(memo, n, left, right, leftType) ==
    IF isFractional(left) \/ isFractional(right)
    THEN Outcome(memo, <<>>, "InternalCompilerError", 0)
    ELSE LET res == evaluateBinary(value(left), value(right), Node(n).op)
         IN  CASE res.tag = "value" ->
                    Outcome(setResult(memo, n,
                                TypedValue(leftType, RationalNumber(res.val.num, res.val.den))),
                            <<>>, "none", 0)
               [] res.tag = "nullopt" ->
                    Outcome(memo, <<typeError(1211, n)>>, "none", 0)
               [] OTHER -> Outcome(memo, <<>>, res.tag, 0)

\* generalPath recording the left operand for the node before it reports
\* the incompatible operator.
generalPathRecordsFirst(memo, n, left, right) ==
    LET commonType == binaryOperatorResult(left, Node(n).op, right)
    IN  IF commonType = NULL
        THEN Outcome(setValue(memo, n, left), <<fatalTypeError(6020, n)>>, "FatalError", 1)
        ELSE Outcome(setValue(memo, n, IF isCompareOp(Node(n).op) THEN BoolType ELSE commonType),
                     <<>>, "none", 1)

\* The general path: the type system resolves the operator; the fatal
\* diagnostic 6020 when it cannot.
generalPath(memo, n, left, right) ==
    LET commonType == binaryOperatorResult(left, Node(n).op, right)
    IN  IF commonType = NULL
        THEN Outcome(memo, <<fatalTypeError(6020, n)>>, "FatalError", 1)
        ELSE Outcome(setValue(memo, n, IF isCompareOp(Node(n).op) THEN BoolType ELSE commonType),
                     <<>>, "none", 1)

\* ConstantEvaluator::endVisit(BinaryOperation const&).
endVisitBinaryOperation(memo, n) ==
    LET left      == evaluatedValue(memo, Node(n).kids[1])
        right     == evaluatedValue(memo, Node(n).kids[2])
        leftType  == result(memo, Node(n).kids[1]).sourceType
        rightType == result(memo, Node(n).kids[2]).sourceType
    IN  IF ~(left # NULL /\ right # NULL)
        THEN Outcome(memo, <<>>, "none", 0)
        ELSE IF fastPath(left, right, leftType, rightType)
        THEN fastPathFold(memo, n, left, right, leftType)
        ELSE generalPath(memo, n, left, right)

\* ConstantEvaluator::endVisit(TupleExpression const&).
endVisitTupleExpression(memo, n) ==
    IF ~Node(n).arr /\ Len(Node(n).kids) = 1
    THEN Outcome(setValue(memo, n, evaluatedValue(memo, Node(n).kids[1])), <<>>, "none", 0)
    ELSE Outcome(memo, <<>>, "none", 0)

\* identifierStep without the depth check.
identifierStepUnchecked(memo, depth, n) ==
    LET variableDeclaration == Declaration(Node(n).ref)
    IN  IF ~variableDeclaration.isVar THEN "return"
        ELSE IF ~variableDeclaration.isConstant THEN "return"
        ELSE IF variableDeclaration.value = 0 THEN "return"
        ELSE IF ~evaluated(memo, variableDeclaration.value) THEN "evaluate"
        ELSE "link"

\* identifierStep without the lookup of the initializer in the memo table.
identifierStepNoLookup(memo, depth, n) ==
    LET variableDeclaration == Declaration(Node(n).ref)
    IN  IF ~variableDeclaration.isVar THEN "return"
        ELSE IF ~variableDeclaration.isConstant THEN "return"
        ELSE IF variableDeclaration.value = 0 THEN "return"
        ELSE IF depth > MaxDepth THEN "throw" ELSE "evaluate"

\* identifierStep with the depth check one level too early.
identifierStepTooEarly(memo, depth, n) ==
    LET variableDeclaration == Declaration(Node(n).ref)
    IN  IF ~variableDeclaration.isVar THEN "return"
        ELSE IF ~variableDeclaration.isConstant THEN "return"
        ELSE IF variableDeclaration.value = 0 THEN "return"
        ELSE IF ~evaluated(memo, variableDeclaration.value)
        THEN IF depth >= MaxDepth THEN "throw" ELSE "evaluate"
        ELSE "link"

\* identifierStep with the depth check off by one.
identifierStepOffByOne(memo, depth, n) ==
    LET variableDeclaration == Declaration(Node(n).ref)
    IN  IF ~variableDeclaration.isVar THEN "return"
        ELSE IF ~variableDeclaration.isConstant THEN "return"
        ELSE IF variableDeclaration.value = 0 THEN "return"
        ELSE IF ~evaluated(memo, variableDeclaration.value)
        THEN IF depth > MaxDepth + 1 THEN "throw" ELSE "evaluate"
        ELSE "link"

\* endVisit(Identifier const&), up to the evaluation of the initializer:
\* "return" (not a constant with an initializer), "throw" (the depth
\* check fails), "evaluate" (the initializer is not in the memo table) or
\* "link" (it is).
identifierStep(memo, depth, n) ==
    LET variableDeclaration == Declaration(Node(n).ref)
    IN  IF ~variableDeclaration.isVar THEN "return"
        ELSE IF ~variableDeclaration.isConstant THEN "return"
        ELSE IF variableDeclaration.value = 0 THEN "return"
        ELSE IF ~evaluated(memo, variableDeclaration.value)
        THEN IF depth > MaxDepth THEN "throw" ELSE "evaluate"
        ELSE "link"

\* linkIdentifier recording the initializer's result as it is, under the
\* initializer's source type.
linkIdentifierSameType(memo, n) ==
    LET variableDeclaration == Declaration(Node(n).ref)
        resultOpt == result(memo, variableDeclaration.value)
    IN  IF resultOpt.has THEN setResult(memo, n, resultOpt) ELSE memo

\* endVisit(Identifier const&), its last statement: link the identifier to
\* the result of the initializer, under the declaration's type.
linkIdentifier(memo, n) ==
    LET variableDeclaration == Declaration(Node(n).ref)
        resultOpt == result(memo, variableDeclaration.value)
    IN  IF resultOpt.has
        THEN setResult(memo, n, TypedValue(variableDeclaration.type, resultOpt.evaluatedValue))
        ELSE memo

\* -------------------------------------------------------------- the stack

Frame(f, n, p) == [fn |-> f, node |-> n, pc |-> p]

Top == stack[Len(stack)]

Pop == SubSeq(stack, 1, Len(stack) - 1)

\* evaluate(_expr) is entered: m_depth++, the scope guard is armed, accept.
Call(stk, n) == stk \o <<Frame("evaluate", n, 0), Frame("accept", n, 0)>>

Running == stack # <<>> /\ exc = "none"

\* accept() has visited the children of the node on top and calls endVisit.
AtEndVisit(kind) ==
    /\ Running
    /\ Top.fn = "accept"
    /\ Node(Top.node).kind = kind
    /\ Top.pc = Len(Node(Top.node).kids)

\* A top-level request for expression e that has not returned (yet).
Requested(e) == [expr |-> e, returned |-> FALSE, value |-> NULL]

\* A handler's outcome takes effect: it returns to its caller, or its
\* exception starts to unwind the stack.
Apply(out, n) ==
    /\ m_evaluations' = out.memo
    /\ errors' = errors \o out.errs
    /\ exc' = out.exc
    /\ typeCalls' = [typeCalls EXCEPT ![n] = @ + out.calls]
    /\ stack' = IF out.exc = "none" THEN Pop ELSE stack
    /\ steps' = steps + 1
    /\ UNCHANGED <<program, m_depth, ret, requests, initEvals>>

\* ------------------------------------------------------------- the actions

Init ==
    /\ program \in Programs
    /\ m_evaluations = [n \in {} |-> nullopt]
    /\ m_depth = 0
    /\ errors = <<>>
    /\ stack = <<>>
    /\ exc = "none"
    /\ ret = Requested(0)
    /\ requests = 0
    /\ typeCalls = [n \in DOMAIN program.nodes |-> 0]
    /\ initEvals = [d \in DOMAIN program.decls |-> 0]
    /\ steps = 0

\* A top-level ConstantEvaluator::evaluate(_expr) on the evaluator; the
\* caller has caught the FatalError of the request before, if any.  The
\* first request of a session is what the one-shot entry point
\* evaluate(_errorReporter, _expr) does on its fresh EvaluationMap.
Evaluate(e) ==
    /\ stack = <<>>
    /\ exc \in {"none", "FatalError"}
    /\ requests < MaxRequests
    /\ requests' = requests + 1
    /\ m_depth' = m_depth + 1
    /\ stack' = Call(<<>>, e)
    /\ exc' = "none"
    /\ ret' = Requested(e)
    /\ steps' = 0
    /\ UNCHANGED <<program, m_evaluations, errors, typeCalls, initEvals>>

\* accept(): the next child of the node on top is visited.
VisitChild ==
    /\ Running
    /\ Top.fn = "accept"
    /\ Top.pc < Len(Node(Top.node).kids)
    /\ stack' = Append([stack EXCEPT ![Len(stack)].pc = @ + 1],
                       Frame("accept", Node(Top.node).kids[Top.pc + 1], 0))
    /\ steps' = steps + 1
    /\ UNCHANGED <<program, m_evaluations, m_depth, errors, exc, ret, requests,
                   typeCalls, initEvals>>

EndVisitLiteral ==
    /\ AtEndVisit("Literal")
    /\ Apply(endVisitLiteral(m_evaluations, Top.node), Top.node)

EndVisitUnaryOperation ==
    /\ AtEndVisit("UnaryOperation")
    /\ Apply(endVisitUnaryOperation(m_evaluations, Top.node), Top.node)

EndVisitBinaryOperation ==
    /\ AtEndVisit("BinaryOperation")
    /\ Apply(endVisitBinaryOperation(m_evaluations, Top.node), Top.node)

EndVisitTupleExpression ==
    /\ AtEndVisit("TupleExpression")
    /\ Apply(endVisitTupleExpression(m_evaluations, Top.node), Top.node)

\* endVisit(Identifier const&) up to and including the call of
\* evaluate(*value), or to its end when the initializer is not evaluated.
EndVisitIdentifier ==
    /\ AtEndVisit("Identifier")
    /\ LET n    == Top.node
           step == identifierStep(m_evaluations, m_depth, n)
       IN  CASE step = "return" ->
                   /\ stack' = Pop
                   /\ UNCHANGED <<m_evaluations, m_depth, errors, exc, initEvals>>
             [] step = "throw" ->
                   /\ errors' = Append(errors, fatalTypeError(5210, n))
                   /\ exc' = "FatalError"
                   /\ UNCHANGED <<m_evaluations, m_depth, stack, initEvals>>
             [] step = "evaluate" ->
                   /\ m_depth' = m_depth + 1
                   /\ stack' = Call(Pop \o <<Frame("endVisit", n, 0)>>, Declaration(Node(n).ref).value)
                   /\ initEvals' = [initEvals EXCEPT ![Node(n).ref] = @ + 1]
                   /\ UNCHANGED <<m_evaluations, errors, exc>>
             [] OTHER ->
                   /\ m_evaluations' = linkIdentifier(m_evaluations, n)
                   /\ stack' = Pop
                   /\ UNCHANGED <<m_depth, errors, exc, initEvals>>
    /\ steps' = steps + 1
    /\ UNCHANGED <<program, ret, requests, typeCalls>>

\* endVisit(Identifier const&) after evaluate(*value) has returned.
EndVisitIdentifierLink ==
    /\ Running
    /\ Top.fn = "endVisit"
    /\ m_evaluations' = linkIdentifier(m_evaluations, Top.node)
    /\ stack' = Pop
    /\ steps' = steps + 1
    /\ UNCHANGED <<program, m_depth, errors, exc, ret, requests, typeCalls, initEvals>>

\* evaluate(_expr) returns evaluatedValue(_expr); the scope guard runs.
EvaluateReturn ==
    /\ Running
    /\ Top.fn = "evaluate"
    /\ m_depth' = m_depth - 1
    /\ stack' = Pop
    /\ ret' = IF Len(stack) = 1
              THEN [expr |-> Top.node, returned |-> TRUE,
                    value |-> evaluatedValue(m_evaluations, Top.node)]
              ELSE ret
    /\ steps' = steps + 1
    /\ UNCHANGED <<program, m_evaluations, errors, exc, requests, typeCalls, initEvals>>

\* unwindFrame with the decrement written after accept() instead of in a
\* scope guard: an exception skips it.
unwindFrameUnguarded(frame, depth) == depth

\* The depth counter after an exception has left a frame: the scope guard
\* of an evaluate frame runs.
unwindFrame(frame, depth) == IF frame.fn = "evaluate" THEN depth - 1 ELSE depth

\* An exception leaves the frame on top.
Unwind ==
    /\ stack # <<>>
    /\ exc # "none"
    /\ m_depth' = unwindFrame(Top, m_depth)
    /\ stack' = Pop
    /\ steps' = steps + 1
    /\ UNCHANGED <<program, m_evaluations, errors, exc, ret, requests, typeCalls, initEvals>>

Next ==
    \/ \E e \in program.roots : Evaluate(e)
    \/ VisitChild
    \/ EndVisitLiteral
    \/ EndVisitUnaryOperation
    \/ EndVisitBinaryOperation
    \/ EndVisitTupleExpression
    \/ EndVisitIdentifier
    \/ EndVisitIdentifierLink
    \/ EvaluateReturn
    \/ Unwind

Spec == Init /\ [][Next]_vars


\* The steps of a request in progress.
Step ==
    \/ VisitChild
    \/ EndVisitLiteral
    \/ EndVisitUnaryOperation
    \/ EndVisitBinaryOperation
    \/ EndVisitTupleExpression
    \/ EndVisitIdentifier
    \/ EndVisitIdentifierLink
    \/ EvaluateReturn
    \/ Unwind

\* ------------------------------------------------------------------ claims

\* The last top-level request has ended, by return or by exception.
Finished == requests >= 1 /\ stack = <<>>

\* The request is the first of its session: the memo table was empty.
FreshSession == requests = 1

\* C1: with const a = b; const b = a; a first request for a (or b) never
\* recurses beyond the depth limit, takes a bounded number of steps and can
\* always take the next one until it has ended, and ends with exactly one
\* diagnostic, the fatal 5210, and without a returned value.
C1_CycleIsReportedOnce ==
    (program = CycleProgram /\ FreshSession) =>
        /\ m_depth <= MaxDepth + 1
        /\ steps <= 5 * (MaxDepth + 1)
        /\ Len(errors) <= 1
        /\ (~Finished => ENABLED Step)
        /\ (Finished =>
               /\ exc = "FatalError"
               /\ ~ret.returned
               /\ Len(errors) = 1
               /\ errors[1].code = 5210
               /\ errors[1].fatal)

C1_Witness ==
    /\ program = CycleProgram
    /\ FreshSession
    /\ Finished
    /\ ret.expr = 4
    /\ errors = <<fatalTypeError(5210, 1)>>

\* The number of constants of the chain a request for node r goes through.
ChainFrom(r) == ChainLen - (r - ChainLen) + 1

\* C2: in a session with an empty memo table, a request for the head of an
\* acyclic chain of more than 32 constants ends with the fatal diagnostic
\* 5210 and returns no value.
C2_LongChainIsRejected ==
    (program = ChainProgram /\ FreshSession /\ Finished /\ ChainFrom(ret.expr) > MaxDepth) =>
        /\ exc = "FatalError"
        /\ ~ret.returned
        /\ Len(errors) = 1
        /\ errors[1].code = 5210
        /\ errors[1].fatal

C2_Witness ==
    /\ program = ChainProgram
    /\ FreshSession
    /\ Finished
    /\ ChainFrom(ret.expr) = MaxDepth + 1
    /\ exc = "FatalError"


\* C3 (amended): a numeric literal L always folds: its entry has L's own
\* type as source type and as value, evaluate(L) returns that type, and a
\* second evaluation leaves the same entry; for a boolean or string literal
\* no entry is recorded and evaluate(L) returns no value.
C3_NumericLiteralFolds ==
    \A n \in Nodes :
        Node(n).kind = "Literal" =>
            LET t == Node(n).type
            IN  /\ evaluated(m_evaluations, n) =>
                       /\ t.cat = "RationalNumber"
                       /\ m_evaluations[n] = TypedValue(t, t)
                /\ (Finished /\ ret.expr = n) =>
                       /\ ret.returned
                       /\ errors = <<>>
                       /\ IF t.cat = "RationalNumber"
                          THEN evaluated(m_evaluations, n) /\ ret.value = t
                          ELSE ~evaluated(m_evaluations, n) /\ ret.value = NULL

\* A numeric literal has been evaluated twice.
C3_Witness ==
    /\ program = LiteralProgram(RationalNumber(MaxInt, 1))
    /\ requests = 2
    /\ Finished
    /\ ret.returned
    /\ ret.value = RationalNumber(MaxInt, 1)
    /\ m_evaluations[1] = TypedValue(RationalNumber(MaxInt, 1), RationalNumber(MaxInt, 1))

\* C3 as claimed: every literal, boolean and string literals included,
\* folds to an entry of its own type, which evaluate returns.
C3_EveryLiteralFolds ==
    \A n \in Nodes :
        (Node(n).kind = "Literal" /\ Finished /\ ret.expr = n) =>
            /\ evaluated(m_evaluations, n)
            /\ m_evaluations[n] = TypedValue(Node(n).type, Node(n).type)
            /\ ret.value = Node(n).type

\* C4: an expression evaluated a second time in one session does not make
\* the type system resolve the operators of its nodes a second time.
C4_NoSecondDelegation ==
    \A n \in Nodes : typeCalls[n] <= 1

\* C5 (amended): once the initializer of a constant has a memo entry, no
\* visit of an identifier referencing the constant evaluates it again.
C5_FoldedInitializerIsNotReevaluated ==
    [][\A d \in DOMAIN program.decls :
          (Declaration(d).value # 0 /\ evaluated(m_evaluations, Declaration(d).value)) =>
              initEvals'[d] = initEvals[d]]_vars

\* Two identifiers referencing the constant C = 5 were visited, the second
\* one in a later request; the initializer was evaluated once.
C5_Witness ==
    /\ program = ConstProgram("number")
    /\ requests = 2
    /\ Finished
    /\ ret.expr = 12
    /\ {10, 11, 17} \subseteq DOMAIN m_evaluations
    /\ initEvals[1] = 1

\* C5 as claimed (for acyclic constants): no initializer is evaluated more
\* than once by the identifiers referencing its constant, whatever it
\* folds to.
C5_InitializerEvaluatedAtMostOnce ==
    program # CycleProgram => \A d \in DOMAIN program.decls : initEvals[d] <= 1


\* The nodes of the subtree of n, and the nodes n is a proper part of.
RECURSIVE Subtree(_)
Subtree(n) == {n} \cup UNION {Subtree(Node(n).kids[i]) : i \in DOMAIN Node(n).kids}

Ancestors(n) == {a \in Nodes : a # n /\ n \in Subtree(a)}

\* n is a binary operation whose operands are folded and take the fast
\* path: numeric values under integer source types.
FastOperands(n) ==
    /\ Node(n).kind = "BinaryOperation"
    /\ evaluated(m_evaluations, Node(n).kids[1])
    /\ evaluated(m_evaluations, Node(n).kids[2])
    /\ fastPath(evaluatedValue(m_evaluations, Node(n).kids[1]),
                evaluatedValue(m_evaluations, Node(n).kids[2]),
                sourceType(m_evaluations, Node(n).kids[1]),
                sourceType(m_evaluations, Node(n).kids[2]))

\* n is a fast-path operation o whose right operand has the value 0.
ByZero(n, o) ==
    /\ FastOperands(n)
    /\ Node(n).op = o
    /\ evaluatedValue(m_evaluations, Node(n).kids[2]).num = 0

LastError == errors[Len(errors)]

\* C6: the fold of a fast-path division by zero reports a recoverable
\* diagnostic at the operator, records nothing for the node and returns to
\* its caller: no exception leaves the handler.
C6_DivisionByZeroIsRecoverable ==
    [][\A n \in Nodes :
          (AtEndVisit("BinaryOperation") /\ Top.node = n /\ ByZero(n, "Div")) =>
              /\ exc' = "none"
              /\ stack' = Pop
              /\ Len(errors') = Len(errors) + 1
              /\ errors'[Len(errors')].loc = n
              /\ ~errors'[Len(errors')].fatal
              /\ ~evaluated(m_evaluations', n)]_vars

\* C7: the fold of x % 0 on the fast path reports the recoverable
\* diagnostic 1211 at the operator, leaves the memo table as it is and
\* returns to its caller; the node and its ancestors never get an entry,
\* the ancestors report nothing, and in (A % 0) + (A + B) the sibling
\* A + B is folded after the error, with one diagnostic per request.
C7_ModuloByZeroIsRecoverable ==
    /\ [][\A n \in Nodes :
            (AtEndVisit("BinaryOperation") /\ Top.node = n /\ ByZero(n, "Mod")) =>
                /\ errors' = Append(errors, typeError(1211, n))
                /\ m_evaluations' = m_evaluations
                /\ exc' = "none"
                /\ stack' = Pop]_vars
    /\ [](\A n \in Nodes :
            ByZero(n, "Mod") =>
                /\ ~evaluated(m_evaluations, n)
                /\ \A a \in Ancestors(n) :
                      /\ ~evaluated(m_evaluations, a)
                      /\ \A i \in DOMAIN errors : errors[i].loc # a)
    /\ []((program.name = "fold" /\ ByZero(7, "Mod")) =>
            /\ exc = "none"
            /\ Len(errors) <= requests
            /\ \A i \in DOMAIN errors : errors[i] = typeError(1211, 7)
            /\ (Finished /\ ret.expr = 11) =>
                  /\ ret.returned
                  /\ ret.value = NULL
                  /\ evaluated(m_evaluations, 10)
                  /\ errors # <<>>)

\* (A % 0) + (A + B) with A = -MaxInt has been evaluated.
C7_Witness ==
    /\ program = FoldProgram(-MaxInt, 0, "Mod")
    /\ FreshSession
    /\ Finished
    /\ ret.expr = 11
    /\ ret.returned
    /\ errors = <<typeError(1211, 7)>>
    /\ evaluated(m_evaluations, 10)
    /\ ~evaluated(m_evaluations, 7)
    /\ ~evaluated(m_evaluations, 11)

\* C8: on integers a, b the fast path folds a + b, a - b, a * b to the
\* exact result, a / b (b # 0) to the quotient truncated toward zero and
\* a % b (b # 0) to the remainder with the sign of a, and
\* (a / b) * b + a % b = a; a request for such an operation returns the
\* folded number.
C8_FoldIsExactArithmetic ==
    \A n \in Nodes :
        LET a  == evaluatedValue(m_evaluations, Node(n).kids[1])
            b  == evaluatedValue(m_evaluations, Node(n).kids[2])
            o  == Node(n).op
            v  == evaluatedValue(m_evaluations, n)
            rm == a.num - v.num * b.num
        IN  (FastOperands(n) /\ o \in {"Add", "Sub", "Mul", "Div", "Mod"}
                 /\ ~isFractional(a) /\ ~isFractional(b)) =>
                /\ evaluated(m_evaluations, n) =>
                      /\ v.cat = "RationalNumber"
                      /\ v.den = 1
                      /\ o = "Add" => v.num = a.num + b.num
                      /\ o = "Sub" => v.num = a.num - b.num
                      /\ o = "Mul" => v.num = a.num * b.num
                      /\ o = "Div" =>
                            /\ b.num # 0
                            /\ Abs(rm) < Abs(b.num)
                            /\ rm = 0 \/ Sign(rm) = Sign(a.num)
                            /\ v.num * b.num + foldMod(value(a), value(b)).val.num = a.num
                      /\ o = "Mod" =>
                            /\ b.num # 0
                            /\ Abs(v.num) < Abs(b.num)
                            /\ v.num = 0 \/ Sign(v.num) = Sign(a.num)
                            /\ \E q \in (-Abs(a.num))..Abs(a.num) : q * b.num + v.num = a.num
                            /\ foldDiv(value(a), value(b)).val.num * b.num + v.num = a.num
                /\ (Finished /\ exc = "none" /\ ret.expr = n /\ (o \in {"Div", "Mod"} => b.num # 0)) =>
                      /\ evaluated(m_evaluations, n)
                      /\ ret.value = v

\* -MaxInt / 2 has been folded: -3 / 2 = -1 for MaxInt = 3.
C8_Witness ==
    /\ program = FoldProgram(-MaxInt, 2, "Div")
    /\ Finished
    /\ ret.expr = 7
    /\ ret.value = RationalNumber(-(MaxInt \div 2), 1)
    /\ MaxInt % 2 = 1

\* C9: the entry of a single-component tuple that is no inline array is
\* the entry of its component, so (A) op B folds as A op B does; any other
\* tuple has no entry.
C9_GroupingIsTransparent ==
    /\ \A t \in Nodes :
          Node(t).kind = "TupleExpression" =>
              IF ~Node(t).arr /\ Len(Node(t).kids) = 1
              THEN evaluated(m_evaluations, t) =>
                       result(m_evaluations, t) = result(m_evaluations, Node(t).kids[1])
              ELSE ~evaluated(m_evaluations, t)
    /\ (program.name = "tuple" /\ Finished /\ exc = "none" /\ ret.expr = 6) =>
          result(m_evaluations, 4) = result(m_evaluations, 3)
    /\ (program.name = "tuple" /\ evaluated(m_evaluations, 6) /\ evaluated(m_evaluations, 9)) =>
          m_evaluations[6] = m_evaluations[9]

\* C10: when a fatal error (6020, 5210) is raised, the failing node, its
\* ancestors and the nodes under evaluation have no memo entry; raising it
\* and unwinding leave the memo table as it was, and nothing else happens
\* in the request: no node is visited, no operator resolved, no diagnostic
\* reported.
C10_FatalErrorLeavesMemoIntact ==
    /\ [](exc = "FatalError" =>
            /\ LastError.fatal
            /\ LastError.code \in {6020, 5210}
            /\ ~evaluated(m_evaluations, LastError.loc)
            /\ \A a \in Ancestors(LastError.loc) : ~evaluated(m_evaluations, a)
            /\ \A i \in DOMAIN stack : ~evaluated(m_evaluations, stack[i].node))
    /\ [][exc' = "FatalError" => m_evaluations' = m_evaluations]_vars
    /\ [][(exc = "FatalError" /\ stack # <<>>) =>
            /\ stack' = Pop
            /\ errors' = errors
            /\ typeCalls' = typeCalls
            /\ initEvals' = initEvals]_vars

\* -1 + (a / 0) failed twice, the second time as the initializer of C; the
\* entries of 1 and -1 are those the first request left.
C10_Witness ==
    /\ program.name = "general"
    /\ requests = 2
    /\ Finished
    /\ exc = "FatalError"
    /\ ret.expr = 9
    /\ errors = <<fatalTypeError(6020, 3), fatalTypeError(6020, 3)>>
    /\ {4, 5} \subseteq DOMAIN m_evaluations
    /\ m_evaluations[5] = TypedValue(RationalNumber(-1, 1), RationalNumber(-1, 1))
    /\ ~evaluated(m_evaluations, 3)
    /\ ~evaluated(m_evaluations, 6)

\* The evaluate(*value) calls of identifiers that are in progress: the
\* evaluate frames above the request's own.
NestedInitializers == Cardinality({i \in DOMAIN stack : i > 1 /\ stack[i].fn = "evaluate"})

\* An identifier is about to be visited whose constant has an initializer
\* without a memo entry.
AtUnfoldedIdentifier ==
    /\ AtEndVisit("Identifier")
    /\ Declaration(Node(Top.node).ref).isVar
    /\ Declaration(Node(Top.node).ref).isConstant
    /\ Declaration(Node(Top.node).ref).value # 0
    /\ ~evaluated(m_evaluations, Declaration(Node(Top.node).ref).value)

\* C11 (amended): the depth counter counts the top-level evaluate as well
\* as the evaluations of initializers: it is at most 33, with at most 32
\* initializer evaluations nested; the visit of an identifier whose
\* initializer has no entry enters the evaluation of the initializer, one
\* deeper, while the counter is at most 32, and raises the fatal
\* diagnostic 5210 without entering it when the counter exceeds 32.
C11_DepthIsBounded ==
    /\ [](/\ m_depth <= MaxDepth + 1
          /\ NestedInitializers <= MaxDepth
          /\ m_depth = NestedInitializers + (IF stack = <<>> THEN 0 ELSE 1))
    /\ [][AtUnfoldedIdentifier =>
            IF m_depth > MaxDepth
            THEN /\ errors' = Append(errors, fatalTypeError(5210, Top.node))
                 /\ exc' = "FatalError"
                 /\ m_depth' = m_depth
                 /\ stack' = stack
                 /\ initEvals' = initEvals
            ELSE /\ m_depth' = m_depth + 1
                 /\ errors' = errors
                 /\ exc' = "none"
                 /\ Top'.fn = "accept"
                 /\ Top'.node = Declaration(Node(Top.node).ref).value]_vars

\* The 33rd constant of a chain is referenced at depth 33: the diagnostic
\* is raised at the counter's maximum.
C11_Witness ==
    /\ program = ChainProgram
    /\ m_depth = MaxDepth + 1
    /\ NestedInitializers = MaxDepth
    /\ exc = "FatalError"
    /\ LastError = fatalTypeError(5210, MaxDepth)

\* C11 as claimed: the depth counter is at most 32.
C11_DepthAtMostMaxDepth == m_depth <= MaxDepth

\* The evaluate calls in progress.
EvaluateFrames == {i \in DOMAIN stack : stack[i].fn = "evaluate"}

\* C12: the depth counter is the number of evaluate calls in progress: a
\* call adds one on entry and takes it back when it is left, by return or
\* by an exception; the counter is 0 whenever no request is in progress,
\* and a request made after a fatal 5210 has the whole depth budget: a
\* chain of 32 constants then folds to its literal.
C12_DepthIsRestored ==
    /\ [](/\ m_depth = Cardinality(EvaluateFrames)
          /\ stack = <<>> => m_depth = 0)
    /\ [][/\ (stack # <<>> /\ Top.fn = "evaluate") =>
                /\ stack' = Pop
                /\ m_depth' = m_depth - 1
          /\ Len(stack') < Len(stack) =>
                /\ stack' = Pop
                /\ m_depth' = IF Top.fn = "evaluate" THEN m_depth - 1 ELSE m_depth
          /\ stack = <<>> => m_depth' = 1]_vars
    /\ []((program = ChainProgram /\ Finished /\ ChainFrom(ret.expr) <= MaxDepth) =>
             /\ exc = "none"
             /\ ret.returned
             /\ ret.value = RationalNumber(7, 1)
             /\ \A i \in DOMAIN errors : i < requests)

\* A chain of 35 constants was rejected at depth 33; the next request, for
\* a chain of 32 constants, has folded.
C12_Witness ==
    /\ program = ChainProgram
    /\ requests = 2
    /\ Finished
    /\ m_depth = 0
    /\ errors = <<fatalTypeError(5210, MaxDepth)>>
    /\ ret.expr = 2 * ChainLen - MaxDepth + 1
    /\ ret.returned
    /\ ret.value = RationalNumber(7, 1)

\* C13: every entry of the memo table is present and holds a value of the
\* RationalNumber category; setResult and setValue leave the table as it
\* is for an absent result, an absent value and a value of another
\* category, so the visit of a boolean or string literal and of a
\* comparison the type system accepts leave it unchanged.
C13_MemoHoldsNumericValues ==
    /\ [](\A n \in DOMAIN m_evaluations :
             /\ n \in Nodes
             /\ m_evaluations[n].has
             /\ m_evaluations[n].evaluatedValue # NULL
             /\ m_evaluations[n].evaluatedValue.cat = "RationalNumber"
             /\ m_evaluations[n].sourceType # NULL)
    /\ [](\A n \in Nodes :
             /\ setResult(m_evaluations, n, nullopt) = m_evaluations
             /\ setValue(m_evaluations, n, NULL) = m_evaluations
             /\ \A t \in {BoolType, StringLiteralType, IntegerType("uint256")} :
                   /\ setValue(m_evaluations, n, t) = m_evaluations
                   /\ setResult(m_evaluations, n, TypedValue(IntegerType("uint256"), t))
                          = m_evaluations)
    /\ [][\A n \in Nodes :
            \/ /\ AtEndVisit("Literal") /\ Top.node = n
               /\ Node(n).type.cat # "RationalNumber"
            \/ /\ AtEndVisit("BinaryOperation") /\ Top.node = n
               /\ isCompareOp(Node(n).op)
            \/ /\ AtEndVisit("TupleExpression") /\ Top.node = n
               /\ ~evaluated(m_evaluations, Node(n).kids[1])
            => m_evaluations' = m_evaluations]_vars

\* 1 < 2 on two literals has been resolved by the type system and
\* evaluated: the boolean was not recorded, the literals are.
C13_Witness ==
    /\ program = GeneralProgram(1, 2, "LessThan")
    /\ FreshSession
    /\ Finished
    /\ ret.expr = 3
    /\ ret.returned
    /\ ret.value = NULL
    /\ typeCalls[3] = 1
    /\ errors = <<>>
    /\ DOMAIN m_evaluations = {1, 2}

\* C14: a binary operation whose operands take the fast path has one of the
\* operators | & ^ + - * / %, and its fold does not end in the failed
\* assertion of the default branch of evaluateBinary.
C14_DefaultBranchIsUnreachable ==
    \A n \in Nodes :
        (stack # <<>> /\ Top.fn = "accept" /\ Top.node = n /\ Top.pc = 2 /\ FastOperands(n)) =>
            LET left  == evaluatedValue(m_evaluations, Node(n).kids[1])
                right == evaluatedValue(m_evaluations, Node(n).kids[2])
            IN  /\ exc = "InternalCompilerError" => isFractional(left) \/ isFractional(right)
                /\ exc = "none" => Node(n).op \in FoldOps

\* C15: every memo entry with a source type of the integer category holds
\* an integral value, the entries of identifiers included, so no fold on
\* the fast path ends in a failed assertion of !isFractional().
C15_IntegerEntriesAreIntegral ==
    /\ \A n \in DOMAIN m_evaluations :
          m_evaluations[n].sourceType.cat = "Integer" =>
              ~isFractional(m_evaluations[n].evaluatedValue)
    /\ \A n \in Nodes :
          (stack # <<>> /\ Top.fn = "accept" /\ Top.node = n /\ Top.pc = 2 /\ FastOperands(n)) =>
              /\ ~isFractional(evaluatedValue(m_evaluations, Node(n).kids[1]))
              /\ ~isFractional(evaluatedValue(m_evaluations, Node(n).kids[2]))
              /\ Node(n).op \in FoldOps => exc # "InternalCompilerError"

\* The declaration identifier n refers to is a constant with an initializer.
RefersToInitializedConstant(n) ==
    /\ Node(n).kind = "Identifier"
    /\ Declaration(Node(n).ref).isVar
    /\ Declaration(Node(n).ref).isConstant
    /\ Declaration(Node(n).ref).value # 0

\* C16: when the visit of an identifier of a constant with an initializer
\* returns, the identifier has an entry iff the initializer has one; the
\* entry of such an identifier always holds the initializer's value under
\* the declaration's annotated type; the visit of any other identifier
\* returns at once, without an entry and without a diagnostic.
C16_IdentifierIsLinkedToInitializer ==
    /\ [](\A n \in Nodes :
             Node(n).kind = "Identifier" =>
                 IF RefersToInitializedConstant(n)
                 THEN evaluated(m_evaluations, n) =>
                          /\ evaluated(m_evaluations, Declaration(Node(n).ref).value)
                          /\ m_evaluations[n].evaluatedValue
                                 = m_evaluations[Declaration(Node(n).ref).value].evaluatedValue
                          /\ m_evaluations[n].sourceType = Declaration(Node(n).ref).type
                 ELSE ~evaluated(m_evaluations, n))
    /\ [][\A n \in Nodes :
            (Running /\ Top.node = n /\ Node(n).kind = "Identifier") =>
                IF RefersToInitializedConstant(n)
                THEN (stack' = Pop /\ exc' = "none") =>
                         (evaluated(m_evaluations', n)
                              <=> evaluated(m_evaluations', Declaration(Node(n).ref).value))
                ELSE /\ stack' = Pop
                     /\ exc' = "none"
                     /\ errors' = errors
                     /\ m_evaluations' = m_evaluations]_vars

\* C = 5 declared uint256 and F + N (a function, a constant without
\* initializer) were requested: the identifier of C holds 5 under uint256,
\* the literal holds it under its own type; F and N have no entry.
C16_Witness ==
    /\ program = ConstProgram("number")
    /\ requests = 2
    /\ Finished
    /\ ret.expr = 15
    /\ ret.returned
    /\ errors = <<>>
    /\ m_evaluations = (17 :> TypedValue(IntegerType("uint256"), RationalNumber(5, 1)))
                       @@ (1 :> TypedValue(RationalNumber(5, 1), RationalNumber(5, 1)))

\* The operators whose operands can be swapped.
CommutativeOps == {"Add", "Mul", "BitOr", "BitAnd", "BitXor"}

\* The number the fast path folds operation n to, if it folds to a value.
Folded(n) ==
    evaluateBinary(value(evaluatedValue(m_evaluations, Node(n).kids[1])),
                   value(evaluatedValue(m_evaluations, Node(n).kids[2])),
                   Node(n).op)

\* C17: the visit of a binary operation whose operands take the fast path
\* and fold to a value records, for the operation, the folded number under
\* the left operand's source type, whatever the right operand's is; so
\* A op B and B op A, for op commutative and A, B of different integer
\* types, have entries of the same value and of different source types.
C17_FastPathKeepsLeftType ==
    /\ [][\A n \in Nodes :
            (AtEndVisit("BinaryOperation") /\ Top.node = n /\ FastOperands(n)
                 /\ ~isFractional(evaluatedValue(m_evaluations, Node(n).kids[1]))
                 /\ ~isFractional(evaluatedValue(m_evaluations, Node(n).kids[2]))
                 /\ Folded(n).tag = "value") =>
                /\ m_evaluations' =
                       (n :> TypedValue(sourceType(m_evaluations, Node(n).kids[1]),
                                        RationalNumber(Folded(n).val.num, Folded(n).val.den)))
                       @@ m_evaluations
                /\ exc' = "none"
                /\ errors' = errors
                /\ stack' = Pop]_vars
    /\ [](\A n \in Nodes :
             (FastOperands(n) /\ evaluated(m_evaluations, n)) =>
                 /\ m_evaluations[n].sourceType = sourceType(m_evaluations, Node(n).kids[1])
                 /\ Folded(n).tag = "value"
                 /\ value(m_evaluations[n].evaluatedValue) = Folded(n).val)
    /\ []((program.name = "mixed" /\ evaluated(m_evaluations, 5) /\ evaluated(m_evaluations, 8)) =>
             /\ m_evaluations[5].sourceType = IntegerType("uint8")
             /\ m_evaluations[8].sourceType = IntegerType("int256")
             /\ Node(5).op \in CommutativeOps =>
                    m_evaluations[5].evaluatedValue = m_evaluations[8].evaluatedValue)

\* A + B and B + A with A = 1 of type uint8 and B = 2 of type int256 were
\* folded: 3 under uint8, 3 under int256.
C17_Witness ==
    /\ program = MixedProgram(1, 2, "Add")
    /\ Finished
    /\ evaluated(m_evaluations, 5)
    /\ evaluated(m_evaluations, 8)
    /\ m_evaluations[5] = TypedValue(IntegerType("uint8"), RationalNumber(3, 1))
    /\ m_evaluations[8] = TypedValue(IntegerType("int256"), RationalNumber(3, 1))

\* The constants of the chain from cs on whose initializer has no entry.
Unfolded(s) == {i \in s..ChainLen : ~evaluated(m_evaluations, i)}

\* C18: a first request for the head of a chain of at most 32 constants
\* reports nothing, returns the literal of the last constant and leaves an
\* entry, of that value under the declared type, for every identifier of
\* the chain.  In any session, 5210 is only raised at an identifier whose
\* initializer has no entry while the depth counter exceeds 32: a request
\* for a chain fails iff more than 32 of its constants, counted from its
\* head, are not folded yet, and folds the whole chain otherwise.
C18_NoFalseCycleOnShortChains ==
    /\ []((program = ChainProgram /\ FreshSession /\ Finished
               /\ ChainFrom(ret.expr) <= MaxDepth) =>
             /\ errors = <<>>
             /\ exc = "none"
             /\ ret.returned
             /\ ret.value = Node(ChainLen).type
             /\ \A n \in ((ret.expr - ChainLen)..(ChainLen - 1)) \cup {ret.expr} :
                   /\ evaluated(m_evaluations, n)
                   /\ m_evaluations[n] = TypedValue(IntegerType("uint256"), Node(ChainLen).type))
    /\ [][(Len(errors') > Len(errors) /\ errors'[Len(errors')].code = 5210) =>
             /\ AtUnfoldedIdentifier
             /\ m_depth > MaxDepth
             /\ errors' = Append(errors, fatalTypeError(5210, Top.node))]_vars
    /\ []((program = ChainProgram /\ Finished) =>
             IF Cardinality(Unfolded(ret.expr - ChainLen)) > MaxDepth
             THEN /\ exc = "FatalError"
                  /\ ~ret.returned
                  /\ LastError.code = 5210
             ELSE /\ exc = "none"
                  /\ ret.returned
                  /\ ret.value = Node(ChainLen).type
                  /\ Unfolded(ret.expr - ChainLen) = {}
                  /\ evaluated(m_evaluations, ret.expr))

\* The chain of 35 constants has folded in the second request of a
\* session, without a diagnostic: the first request folded its tail.
C18_Witness ==
    /\ program = ChainProgram
    /\ requests = 2
    /\ Finished
    /\ ChainFrom(ret.expr) = ChainLen
    /\ ChainLen > MaxDepth
    /\ ret.returned
    /\ ret.value = RationalNumber(7, 1)
    /\ errors = <<>>
    /\ \A n \in (1..ChainLen) \cup {ret.expr} : evaluated(m_evaluations, n)
    /\ m_evaluations[ret.expr] = TypedValue(IntegerType("uint256"), RationalNumber(7, 1))

====
